---------------------------- MODULE Spec2Model ----------------------------
(***************************************************************************)
(* Model of src/main.go: the weather/sun aggregator getConsolidatedData,   *)
(* its two provider clients, and the two local calculators.                *)
(*                                                                         *)
(* Units.  Float fields of a reading are sampled at whole numbers (every   *)
(* threshold of the code is a whole number).  The hiking index is held in  *)
(* tenths, the moon illumination in hundredths.  An instant is a signed    *)
(* number of ticks since the reference new moon, TicksPerMonth ticks to    *)
(* the synodic month, so the lunar phase is the rational p/TicksPerMonth.  *)
(* Clock times are minutes of the day.                                     *)
(***************************************************************************)
EXTENDS Integers, Sequences, FiniteSets, TLC

\* ------------------------------------------------------------------ bounds
TicksPerMonth == 200
MaxCycles == 2
MaxAqiLen == 2
NumCalls == 2

VARIABLES
    pc,        \* per call: position of the calling task in getConsolidatedData
    wg,        \* per call: the WaitGroup counter
    wpc,       \* per call: position of the weather goroutine
    spc,       \* per call: position of the sun goroutine
    wresp1,    \* per call: what http.Get(weatherURL) produced
    wresp2,    \* per call: what http.Get(aqiURL) produced
    sresp,     \* per call: what http.Get(url) of fetchSunData produced
    weather,   \* per call: the local variable weather
    sun,       \* per call: the local variable sun
    err1,      \* per call: the local variable err1
    err2,      \* per call: the local variable err2
    order,     \* per call: the tasks in the order of their wg.Done()
    ret,       \* per call: the (response, error) pairs returned so far
    reading,   \* the argument of calculateIndices
    indices,   \* the result of calculateIndices, once computed
    now,       \* the instant time.Now() of calculateMoonPhase
    moon       \* the result of calculateMoonPhase, once computed

aggVars == <<pc, wg, wpc, spc, wresp1, wresp2, sresp, weather, sun, err1, err2,
             order, ret>>
pureVars == <<reading, indices, now, moon>>
vars == <<aggVars, pureVars>>

\* ------------------------------------------------------- zero values (Go)
Nil == "nil"
NoString == <<>>

ZeroWeather ==
    [Temperature |-> 0, Precipitation |-> 0, CloudCover |-> 0, UVIndex |-> 0,
     AQI |-> 0]

ZeroSun == [Sunrise |-> NoString, Sunset |-> NoString, GoldenHour |-> NoString]

ZeroMoon == [PhaseName |-> "", Illumination |-> 0]

ZeroIndices == [HikingIndex |-> 0, HikingRecommendation |-> ""]

ZeroResponse ==
    [Weather |-> ZeroWeather, Sun |-> ZeroSun, Moon |-> ZeroMoon,
     Indices |-> ZeroIndices]

\* A calculator result that has not been computed yet.
NotComputed == [computed |-> FALSE]

\* ------------------------------------------------------ calculateIndices
\* Variant: the lower bound of the clamp left out.
Clamp_NoFloor(score) == IF score > 10 THEN 10 ELSE score

\* if score < 0 { score = 0 } else if score > 10 { score = 10 }
Clamp(score) == IF score < 0 THEN 0 ELSE IF score > 10 THEN 10 ELSE score

Recommendation(score) ==
    IF score >= 8 THEN "Sangat baik untuk mendaki!"
    ELSE IF score >= 5 THEN "Cukup baik, tetapi perhatikan cuaca."
    ELSE IF score >= 3 THEN "Kurang disarankan, kondisi tidak ideal."
    ELSE "Tidak disarankan untuk mendaki hari ini."

\* The running score after each of the five if statements, in source order.
ScoreAfterTemperature(w) ==
    IF w.Temperature > 33 THEN 10 - 3
    ELSE IF w.Temperature < 18 THEN 10 - 2
    ELSE 10

ScoreAfterPrecipitation(w) ==
    IF w.Precipitation > 1 THEN ScoreAfterTemperature(w) - 4
    ELSE ScoreAfterTemperature(w)

ScoreAfterUV(w) ==
    IF w.UVIndex > 8 THEN ScoreAfterPrecipitation(w) - 2
    ELSE ScoreAfterPrecipitation(w)

ScoreAfterAQI(w) ==
    IF w.AQI > 100 THEN ScoreAfterUV(w) - 3 ELSE ScoreAfterUV(w)

ScoreAfterCloud(w) ==
    IF w.CloudCover > 80 THEN ScoreAfterAQI(w) - 1 ELSE ScoreAfterAQI(w)

\* HikingIndex is math.Round(float64(score)*10)/10, held here in tenths.
calculateIndices(w) ==
    LET score == Clamp(ScoreAfterCloud(w))
    IN  [HikingIndex |-> score * 10,
         HikingRecommendation |-> Recommendation(score)]

\* ---------------------------------------------------- calculateMoonPhase
\* math.Mod(x, y) for y > 0: the remainder carries the sign of x.
Mod(x, y) == IF x >= 0 THEN x % y ELSE -((-x) % y)

\* math.Round(n/d) for d > 0: to the nearest integer, halves away from zero.
Round(n, d) ==
    IF n >= 0 THEN (2 * n + d) \div (2 * d)
    ELSE -((2 * (-n) + d) \div (2 * d))

\* phase := math.Mod(days, 29.53058867) / 29.53058867, as the numerator p of
\* the fraction p/TicksPerMonth.
Phase(t) == Mod(t, TicksPerMonth)

\* phase < x, for x given in hundredths.
Below(p, hundredths) == p * 100 < hundredths * TicksPerMonth
Above(p, hundredths) == p * 100 > hundredths * TicksPerMonth

\* Variant: the first case written phase >= 0.97.
PhaseName_InclusiveUpper(p) ==
    IF Below(p, 3) \/ ~Below(p, 97) THEN "Bulan Baru"
    ELSE IF Below(p, 25) THEN "Sabit Awal"
    ELSE IF Below(p, 27) THEN "Kuartal Pertama"
    ELSE IF Below(p, 50) THEN "Cembung Awal"
    ELSE IF Below(p, 53) THEN "Bulan Purnama"
    ELSE IF Below(p, 75) THEN "Cembung Akhir"
    ELSE IF Below(p, 77) THEN "Kuartal Akhir"
    ELSE "Sabit Akhir"

PhaseName(p) ==
    IF Below(p, 3) \/ Above(p, 97) THEN "Bulan Baru"
    ELSE IF Below(p, 25) THEN "Sabit Awal"
    ELSE IF Below(p, 27) THEN "Kuartal Pertama"
    ELSE IF Below(p, 50) THEN "Cembung Awal"
    ELSE IF Below(p, 53) THEN "Bulan Purnama"
    ELSE IF Below(p, 75) THEN "Cembung Akhir"
    ELSE IF Below(p, 77) THEN "Kuartal Akhir"
    ELSE "Sabit Akhir"

\* illum := phase; if illum > 0.5 { illum = 1 - illum }; illum *= 2;
\* math.Round(illum*100)/100, held in hundredths.
Illumination(p) ==
    LET folded == IF Above(p, 50) THEN TicksPerMonth - p ELSE p
    IN  Round(2 * folded * 100, TicksPerMonth)

calculateMoonPhase(t) ==
    [PhaseName |-> PhaseName(Phase(t)), Illumination |-> Illumination(Phase(t))]


\* ------------------------------------------------------ provider responses
\* What one http.Get produced: got is FALSE while the call is outstanding;
\* transport is http.Get's err != nil; status is resp.StatusCode; decodeErr is
\* the error of json.NewDecoder(resp.Body).Decode; the remaining fields are
\* what Decode left in the target struct.
Statuses == {200, 503}

CurrentReadings ==
    {[Temperature |-> 35, Precipitation |-> 0, CloudCover |-> 20, UVIndex |-> 5],
     [Temperature |-> 20, Precipitation |-> 2, CloudCover |-> 90, UVIndex |-> 9]}

ZeroCurrent ==
    [Temperature |-> 0, Precipitation |-> 0, CloudCover |-> 0, UVIndex |-> 0]

NoWeatherResponse ==
    [got |-> FALSE, transport |-> FALSE, status |-> 0, decodeErr |-> FALSE,
     current |-> ZeroCurrent]

WeatherResponses ==
    {[got |-> TRUE, transport |-> TRUE, status |-> 0, decodeErr |-> FALSE,
      current |-> ZeroCurrent]}
    \cup {[got |-> TRUE, transport |-> FALSE, status |-> st, decodeErr |-> TRUE,
           current |-> ZeroCurrent] : st \in Statuses}
    \cup {[got |-> TRUE, transport |-> FALSE, status |-> st, decodeErr |-> FALSE,
           current |-> r] : st \in Statuses, r \in CurrentReadings}

AqiValues == {40, 150}

AqiSeries == UNION {[1..n -> AqiValues] : n \in 0..MaxAqiLen}

NoAqiResponse ==
    [got |-> FALSE, transport |-> FALSE, status |-> 0, decodeErr |-> FALSE,
     series |-> <<>>]

\* decodeErr with an empty series is a body that is not JSON; decodeErr with a
\* filled series is a body with a value of the wrong type, which Decode skips
\* while it completes the rest; no decodeErr with an empty series is a body
\* whose hourly series is missing or empty.
AqiResponses ==
    {[got |-> TRUE, transport |-> TRUE, status |-> 0, decodeErr |-> FALSE,
      series |-> <<>>]}
    \cup {[got |-> TRUE, transport |-> FALSE, status |-> st, decodeErr |-> e,
           series |-> s] : st \in Statuses, e \in BOOLEAN, s \in AqiSeries}

\* A timestamp time.Parse(time.RFC3339, ...) rejects.
BadTime == -1

SunriseValues == {BadTime, 1375}
SunsetValues == {BadTime, 655}

NoSunResponse ==
    [got |-> FALSE, transport |-> FALSE, status |-> 0, decodeErr |-> FALSE,
     sunrise |-> BadTime, sunset |-> BadTime]

SunResponses ==
    {[got |-> TRUE, transport |-> TRUE, status |-> 0, decodeErr |-> FALSE,
      sunrise |-> BadTime, sunset |-> BadTime]}
    \cup {[got |-> TRUE, transport |-> FALSE, status |-> st, decodeErr |-> TRUE,
           sunrise |-> BadTime, sunset |-> BadTime] : st \in Statuses}
    \cup {[got |-> TRUE, transport |-> FALSE, status |-> st, decodeErr |-> FALSE,
           sunrise |-> a, sunset |-> b] :
              st \in Statuses, a \in SunriseValues, b \in SunsetValues}

\* ------------------------------------------------------- fetchWeatherData
\* The error of the primary weather sub-call, Nil when it succeeded.
PrimaryError(r1) ==
    IF r1.transport THEN "weather fetch error"
    ELSE IF r1.status # 200 THEN "weather bad response"
    ELSE IF r1.decodeErr THEN "weather JSON decode error"
    ELSE Nil

\* aqi := 0; if len(AQI) > 0 { aqi = AQI[len(AQI)-1] }
LatestAqi(series) == IF Len(series) > 0 THEN series[Len(series)] ELSE 0

\* r2 is read only when the primary sub-call succeeded.
fetchWeatherData(r1, r2) ==
    IF PrimaryError(r1) # Nil
    THEN [data |-> ZeroWeather, err |-> PrimaryError(r1)]
    ELSE IF r2.transport
    THEN [data |-> ZeroWeather, err |-> "aqi fetch error"]
    ELSE [data |-> [Temperature |-> r1.current.Temperature,
                    Precipitation |-> r1.current.Precipitation,
                    CloudCover |-> r1.current.CloudCover,
                    UVIndex |-> r1.current.UVIndex,
                    AQI |-> LatestAqi(r2.series)],
          err |-> Nil]

\* ----------------------------------------------------------- fetchSunData
MinutesPerDay == 1440
JakartaOffset == 420

\* t.In(loc) for loc Asia/Jakarta, on the minute of the day.
InJakarta(m) == (m + JakartaOffset) % MinutesPerDay

\* t.Format("15:04")
Format(m) == <<m \div 60, m % 60>>

fetchSunData(r) ==
    IF r.transport THEN [data |-> ZeroSun, err |-> "sun fetch error"]
    ELSE IF r.decodeErr THEN [data |-> ZeroSun, err |-> "sun decode error"]
    ELSE IF r.sunrise = BadTime \/ r.sunset = BadTime
    THEN [data |-> ZeroSun, err |-> "invalid time format"]
    ELSE [data |-> [Sunrise |-> Format(InJakarta(r.sunrise)),
                    Sunset |-> Format(InJakarta(r.sunset)),
                    GoldenHour |->
                        Format((InJakarta(r.sunrise) + 60) % MinutesPerDay)],
          err |-> Nil]


\* --------------------------------------------------- getConsolidatedData
SingleCall == {1}
RaceCalls == 1..NumCalls

\* The instants time.Now() is sampled at inside an aggregation.
AggregatorInstants == {0, TicksPerMonth \div 2 + 7}

\* The activation record that holds call c's locals weather, sun, err1, err2.
\* Variant: the four variables declared at package level.
Frame_PackageLevel(c) == 1

Frame(c) == c

InitCalls(calls) ==
    /\ pc = [c \in calls |-> "add1"]
    /\ wg = [c \in calls |-> 0]
    /\ wpc = [c \in calls |-> "idle"]
    /\ spc = [c \in calls |-> "idle"]
    /\ wresp1 = [c \in calls |-> NoWeatherResponse]
    /\ wresp2 = [c \in calls |-> NoAqiResponse]
    /\ sresp = [c \in calls |-> NoSunResponse]
    /\ weather = [c \in calls |-> ZeroWeather]
    /\ sun = [c \in calls |-> ZeroSun]
    /\ err1 = [c \in calls |-> Nil]
    /\ err2 = [c \in calls |-> Nil]
    /\ order = [c \in calls |-> <<>>]
    /\ ret = [c \in calls |-> <<>>]

taskVars == <<wpc, spc, wresp1, wresp2, sresp, weather, sun, err1, err2, order>>

\* wg.Add(1) before the weather goroutine
Add1(c) ==
    /\ pc[c] = "add1"
    /\ wg' = [wg EXCEPT ![c] = @ + 1]
    /\ pc' = [pc EXCEPT ![c] = "go1"]
    /\ UNCHANGED <<taskVars, ret, pureVars>>

\* go func() { defer wg.Done(); weather, err1 = fetchWeatherData(lat, lon) }()
GoWeather(c) ==
    /\ pc[c] = "go1"
    /\ wpc' = [wpc EXCEPT ![c] = "get1"]
    /\ pc' = [pc EXCEPT ![c] = "add2"]
    /\ UNCHANGED <<wg, spc, wresp1, wresp2, sresp, weather, sun, err1, err2,
                   order, ret, pureVars>>

\* wg.Add(1) before the sun goroutine
Add2(c) ==
    /\ pc[c] = "add2"
    /\ wg' = [wg EXCEPT ![c] = @ + 1]
    /\ pc' = [pc EXCEPT ![c] = "go2"]
    /\ UNCHANGED <<taskVars, ret, pureVars>>

\* go func() { defer wg.Done(); sun, err2 = fetchSunData(lat, lon) }()
GoSun(c) ==
    /\ pc[c] = "go2"
    /\ spc' = [spc EXCEPT ![c] = "get"]
    /\ pc' = [pc EXCEPT ![c] = "wait"]
    /\ UNCHANGED <<wg, wpc, wresp1, wresp2, sresp, weather, sun, err1, err2,
                   order, ret, pureVars>>

\* Variant: a wait that ends at the first wg.Done().
WaitReturns_AfterFirstDone(c) == wg[c] <= 1

\* When wg.Wait() returns.
WaitReturns(c) == wg[c] = 0

Wait(c) ==
    /\ pc[c] = "wait"
    /\ WaitReturns(c)
    /\ pc' = [pc EXCEPT ![c] = "chk1"]
    /\ UNCHANGED <<wg, taskVars, ret, pureVars>>

\* Variant: the sun error given precedence.
FirstError_SunFirst(c) ==
    IF err2[Frame(c)] # Nil THEN err2[Frame(c)] ELSE err1[Frame(c)]

\* The error returned when err1 != nil.
FirstError(c) == err1[Frame(c)]

\* if err1 != nil { return ConsolidatedResponse{}, err1 }
CheckErr1(c) ==
    /\ pc[c] = "chk1"
    /\ IF err1[Frame(c)] # Nil
       THEN /\ ret' = [ret EXCEPT ![c] =
                          Append(@, [resp |-> ZeroResponse, err |-> FirstError(c)])]
            /\ pc' = [pc EXCEPT ![c] = "returned"]
       ELSE /\ pc' = [pc EXCEPT ![c] = "chk2"]
            /\ UNCHANGED ret
    /\ UNCHANGED <<wg, taskVars, pureVars>>

\* Variant: err2 never tested.
Err2Set_Unchecked(c) == FALSE

\* The condition err2 != nil.
Err2Set(c) == err2[Frame(c)] # Nil

\* if err2 != nil { return ConsolidatedResponse{}, err2 }
CheckErr2(c) ==
    /\ pc[c] = "chk2"
    /\ IF Err2Set(c)
       THEN /\ ret' = [ret EXCEPT ![c] =
                          Append(@, [resp |-> ZeroResponse, err |-> err2[Frame(c)]])]
            /\ pc' = [pc EXCEPT ![c] = "returned"]
       ELSE /\ pc' = [pc EXCEPT ![c] = "build"]
            /\ UNCHANGED ret
    /\ UNCHANGED <<wg, taskVars, pureVars>>

\* moon := calculateMoonPhase(); indices := calculateIndices(weather);
\* return ConsolidatedResponse{...}, nil        (t is time.Now())
Build(c, t) ==
    /\ pc[c] = "build"
    /\ ret' = [ret EXCEPT ![c] =
                  Append(@, [resp |-> [Weather |-> weather[Frame(c)],
                                       Sun |-> sun[Frame(c)],
                                       Moon |-> calculateMoonPhase(t),
                                       Indices |-> calculateIndices(weather[Frame(c)])],
                             err |-> Nil])]
    /\ pc' = [pc EXCEPT ![c] = "returned"]
    /\ UNCHANGED <<wg, taskVars, pureVars>>

\* ---- the weather goroutine
\* resp1, err := http.Get(weatherURL) produces r; on a failure of the primary
\* sub-call fetchWeatherData returns without the AQI sub-call.
WeatherArrives(c, r) ==
    /\ wpc[c] = "get1"
    /\ wresp1' = [wresp1 EXCEPT ![c] = r]
    /\ wpc' = [wpc EXCEPT ![c] = IF PrimaryError(r) # Nil THEN "assign" ELSE "get2"]
    /\ UNCHANGED <<pc, wg, spc, wresp2, sresp, weather, sun, err1, err2, order,
                   ret, pureVars>>

\* resp2, err := http.Get(aqiURL) produces r
AqiArrives(c, r) ==
    /\ wpc[c] = "get2"
    /\ wresp2' = [wresp2 EXCEPT ![c] = r]
    /\ wpc' = [wpc EXCEPT ![c] = "assign"]
    /\ UNCHANGED <<pc, wg, spc, wresp1, sresp, weather, sun, err1, err2, order,
                   ret, pureVars>>

\* weather, err1 = fetchWeatherData(lat, lon)
WeatherAssign(c) ==
    /\ wpc[c] = "assign"
    /\ weather' = [weather EXCEPT ![Frame(c)] =
                      fetchWeatherData(wresp1[c], wresp2[c]).data]
    /\ err1' = [err1 EXCEPT ![Frame(c)] =
                   fetchWeatherData(wresp1[c], wresp2[c]).err]
    /\ wpc' = [wpc EXCEPT ![c] = "exit"]
    /\ UNCHANGED <<pc, wg, spc, wresp1, wresp2, sresp, sun, err2, order, ret,
                   pureVars>>

\* Variant: wg.Done() called after a successful fetch only, not deferred.
WeatherCallsDone_OnSuccessOnly(c) == err1[Frame(c)] = Nil

\* Whether the weather goroutine calls wg.Done() on its way out: it is deferred.
WeatherCallsDone(c) == TRUE

\* defer wg.Done()
WeatherDone(c) ==
    /\ wpc[c] = "exit"
    /\ wg' = [wg EXCEPT ![c] = IF WeatherCallsDone(c) THEN @ - 1 ELSE @]
    /\ order' = [order EXCEPT ![c] = Append(@, "weather")]
    /\ wpc' = [wpc EXCEPT ![c] = "done"]
    /\ UNCHANGED <<pc, spc, wresp1, wresp2, sresp, weather, sun, err1, err2, ret,
                   pureVars>>

\* ---- the sun goroutine
\* resp, err := http.Get(url) produces r
SunArrives(c, r) ==
    /\ spc[c] = "get"
    /\ sresp' = [sresp EXCEPT ![c] = r]
    /\ spc' = [spc EXCEPT ![c] = "assign"]
    /\ UNCHANGED <<pc, wg, wpc, wresp1, wresp2, weather, sun, err1, err2, order,
                   ret, pureVars>>

\* sun, err2 = fetchSunData(lat, lon)
SunAssign(c) ==
    /\ spc[c] = "assign"
    /\ sun' = [sun EXCEPT ![Frame(c)] = fetchSunData(sresp[c]).data]
    /\ err2' = [err2 EXCEPT ![Frame(c)] = fetchSunData(sresp[c]).err]
    /\ spc' = [spc EXCEPT ![c] = "exit"]
    /\ UNCHANGED <<pc, wg, wpc, wresp1, wresp2, sresp, weather, err1, order, ret,
                   pureVars>>

\* defer wg.Done()
SunDone(c) ==
    /\ spc[c] = "exit"
    /\ wg' = [wg EXCEPT ![c] = @ - 1]
    /\ order' = [order EXCEPT ![c] = Append(@, "sun")]
    /\ spc' = [spc EXCEPT ![c] = "done"]
    /\ UNCHANGED <<pc, wpc, wresp1, wresp2, sresp, weather, sun, err1, err2, ret,
                   pureVars>>

\* ---- one call, every provider response
PureIdle ==
    /\ reading = ZeroWeather
    /\ indices = NotComputed
    /\ now = 0
    /\ moon = NotComputed

Init == InitCalls(SingleCall) /\ PureIdle

MainStep(c) ==
    \/ Add1(c)
    \/ GoWeather(c)
    \/ Add2(c)
    \/ GoSun(c)
    \/ Wait(c)
    \/ CheckErr1(c)
    \/ CheckErr2(c)
    \/ \E t \in AggregatorInstants : Build(c, t)

WeatherStep(c) == WeatherAssign(c) \/ WeatherDone(c)

SunStep(c) == SunAssign(c) \/ SunDone(c)

Next ==
    \E c \in SingleCall :
        \/ MainStep(c)
        \/ WeatherStep(c)
        \/ SunStep(c)
        \/ \E r \in WeatherResponses : WeatherArrives(c, r)
        \/ \E r \in AqiResponses : AqiArrives(c, r)
        \/ \E r \in SunResponses : SunArrives(c, r)

Spec == Init /\ [][Next]_vars

\* The Go scheduler runs every runnable goroutine; nothing makes a provider
\* answer (http.Get is called on the default client, which has no timeout).
FairSpec ==
    /\ Spec
    /\ \A c \in SingleCall :
          WF_vars(MainStep(c)) /\ WF_vars(WeatherStep(c)) /\ WF_vars(SunStep(c))


\* ---- concurrent calls (one handler goroutine per request), one failing and
\* ---- one succeeding response per provider
RaceWeatherResponses ==
    {r \in WeatherResponses :
        r.transport \/ (r.status = 200 /\ ~r.decodeErr /\ r.current.Temperature = 35)}

RaceAqiResponses ==
    {r \in AqiResponses : ~r.transport /\ r.status = 200 /\ ~r.decodeErr
                          /\ r.series = <<150>>}

RaceSunResponses ==
    {r \in SunResponses :
        r.transport \/ (r.status = 200 /\ ~r.decodeErr /\ r.sunrise # BadTime
                        /\ r.sunset # BadTime)}

RaceInit == InitCalls(RaceCalls) /\ PureIdle

RaceNext ==
    \E c \in RaceCalls :
        \/ MainStep(c)
        \/ WeatherStep(c)
        \/ SunStep(c)
        \/ \E r \in RaceWeatherResponses : WeatherArrives(c, r)
        \/ \E r \in RaceAqiResponses : AqiArrives(c, r)
        \/ \E r \in RaceSunResponses : SunArrives(c, r)

RaceSpec == RaceInit /\ [][RaceNext]_vars

\* The accesses to the locals that are in progress: the statement each task is
\* at, the frame and variable it touches, and whether it writes.
Access(c, task, v, w) ==
    [call |-> c, task |-> task, frame |-> Frame(c), var |-> v, write |-> w]

MainAccesses(c) ==
    IF pc[c] = "chk1" THEN {Access(c, "main", "err1", FALSE)}
    ELSE IF pc[c] = "chk2" THEN {Access(c, "main", "err2", FALSE)}
    ELSE IF pc[c] = "build"
    THEN {Access(c, "main", "weather", FALSE), Access(c, "main", "sun", FALSE)}
    ELSE {}

WeatherAccesses(c) ==
    IF wpc[c] = "assign"
    THEN {Access(c, "weather", "weather", TRUE), Access(c, "weather", "err1", TRUE)}
    ELSE {}

SunAccesses(c) ==
    IF spc[c] = "assign"
    THEN {Access(c, "sun", "sun", TRUE), Access(c, "sun", "err2", TRUE)}
    ELSE {}

Accesses ==
    UNION {MainAccesses(c) \cup WeatherAccesses(c) \cup SunAccesses(c) :
              c \in DOMAIN pc}

\* ------------------------------------------- the calculators on their own
Temperatures == {17, 18, 25, 33, 34}
Precipitations == {0, 1, 2}
CloudCovers == {80, 81}
UVIndexes == {8, 9}
AQIs == {0, 100, 101}

Readings ==
    {[Temperature |-> t, Precipitation |-> p, CloudCover |-> cc, UVIndex |-> u,
      AQI |-> a] :
        t \in Temperatures, p \in Precipitations, cc \in CloudCovers,
        u \in UVIndexes, a \in AQIs}

IndicesInit ==
    /\ InitCalls({})
    /\ reading \in Readings
    /\ indices = NotComputed
    /\ now = 0
    /\ moon = NotComputed

ComputeIndices ==
    /\ ~indices.computed
    /\ indices' = [computed |-> TRUE, value |-> calculateIndices(reading)]
    /\ UNCHANGED <<aggVars, reading, now, moon>>

IndicesSpec == IndicesInit /\ [][ComputeIndices]_vars

Instants == (-(MaxCycles * TicksPerMonth))..(MaxCycles * TicksPerMonth)

MoonInit ==
    /\ InitCalls({})
    /\ reading = ZeroWeather
    /\ indices = NotComputed
    /\ now \in Instants
    /\ moon = NotComputed

ComputeMoon ==
    /\ ~moon.computed
    /\ moon' = [computed |-> TRUE, value |-> calculateMoonPhase(now)]
    /\ UNCHANGED <<aggVars, reading, indices, now>>

MoonSpec == MoonInit /\ [][ComputeMoon]_vars


\* ================================================================ claims
\* What the two provider clients returned in call c (read once answered).
WeatherOutcome(c) == fetchWeatherData(wresp1[c], wresp2[c])
SunOutcome(c) == fetchSunData(sresp[c])

Populated(c, resp) ==
    /\ WeatherOutcome(c).err = Nil
    /\ SunOutcome(c).err = Nil
    /\ resp.Weather = WeatherOutcome(c).data
    /\ resp.Sun = SunOutcome(c).data
    /\ \E t \in AggregatorInstants : resp.Moon = calculateMoonPhase(t)
    /\ resp.Indices = calculateIndices(WeatherOutcome(c).data)

\* C1: whatever the two provider calls produced, getConsolidatedData returns
\* either an error with the zero ConsolidatedResponse or a nil error with all
\* four sections filled from their sources; and when exactly one of the two
\* clients failed it returns an error and the zero response, never the data of
\* the client that succeeded.
C1_AllOrNothing ==
    \A c \in SingleCall :
        /\ pc[c] = "returned" => Len(ret[c]) = 1
        /\ \A i \in 1..Len(ret[c]) :
              LET o == ret[c][i]
                  wFailed == WeatherOutcome(c).err # Nil
                  sFailed == SunOutcome(c).err # Nil
              IN  /\ \/ o.err # Nil /\ o.resp = ZeroResponse
                     \/ o.err = Nil /\ Populated(c, o.resp)
                  /\ (wFailed /\ ~sFailed) \/ (sFailed /\ ~wFailed)
                        => o.err # Nil /\ o.resp = ZeroResponse

\* A call has returned after the weather client failed and the sun client
\* succeeded.
C1_Witness ==
    \E c \in SingleCall :
        /\ pc[c] = "returned"
        /\ WeatherOutcome(c).err # Nil
        /\ SunOutcome(c).err = Nil
        /\ sun[c] # ZeroSun
        /\ ret[c] = <<[resp |-> ZeroResponse, err |-> WeatherOutcome(c).err]>>

AfterWait == {"chk1", "chk2", "build", "returned"}

\* C2: the calling task is past wg.Wait() only when both goroutines have stored
\* their result and called wg.Done(); and a goroutine that has finished with a
\* failure leaves the other one free to receive its provider's answer (it is
\* not cancelled) while the calling task is still before the return.
C2_JoinBeforeReturn ==
    \A c \in SingleCall :
        /\ (pc[c] \in AfterWait \/ ret[c] # <<>>)
              => wpc[c] = "done" /\ spc[c] = "done" /\ Len(order[c]) = 2
        /\ (wpc[c] = "done" /\ err1[c] # Nil /\ spc[c] = "get")
              => /\ pc[c] \notin AfterWait
                 /\ ENABLED (\E r \in SunResponses : SunArrives(c, r))
        /\ (spc[c] = "done" /\ err2[c] # Nil /\ wpc[c] = "get1")
              => /\ pc[c] \notin AfterWait
                 /\ ENABLED (\E r \in WeatherResponses : WeatherArrives(c, r))
        /\ (spc[c] = "done" /\ err2[c] # Nil /\ wpc[c] = "get2")
              => /\ pc[c] \notin AfterWait
                 /\ ENABLED (\E r \in AqiResponses : AqiArrives(c, r))

\* The weather goroutine finished first, with a failure; the sun goroutine is
\* still waiting for its provider and the calling task is still in wg.Wait().
C2_Witness ==
    \E c \in SingleCall :
        /\ pc[c] = "wait"
        /\ order[c] = <<"weather">>
        /\ err1[c] # Nil
        /\ spc[c] = "get"

WeatherErrors ==
    {"weather fetch error", "weather bad response", "weather JSON decode error",
     "aqi fetch error"}

\* C3: when both clients failed, the error getConsolidatedData returns is the
\* weather client's error, in either order of completion.
C3_WeatherErrorWins ==
    \A c \in SingleCall :
        \A i \in 1..Len(ret[c]) :
            (WeatherOutcome(c).err # Nil /\ SunOutcome(c).err # Nil)
                => /\ ret[c][i].err = WeatherOutcome(c).err
                   /\ ret[c][i].err \in WeatherErrors

\* Both clients failed, the sun goroutine finished first, and the call has
\* returned.
C3_Witness ==
    \E c \in SingleCall :
        /\ pc[c] = "returned"
        /\ order[c] = <<"sun", "weather">>
        /\ err1[c] # Nil
        /\ err2[c] # Nil
        /\ ret[c][1].err = err1[c]

\* The ways the AQI sub-call can fail: transport failure, undecodable body,
\* empty or missing hourly series.
AqiFailed(r) == r.got /\ (r.transport \/ r.decodeErr \/ Len(r.series) = 0)

\* C4: once the primary weather sub-call has succeeded, every failure of the AQI
\* sub-call leaves fetchWeatherData succeeding with AQI = 0.
C4_AqiFailureTolerated ==
    \A c \in SingleCall :
        (wpc[c] \in {"exit", "done"} /\ PrimaryError(wresp1[c]) = Nil
            /\ AqiFailed(wresp2[c]))
            => err1[c] = Nil /\ weather[c].AQI = 0

BadStatus(r) == r.got /\ ~r.transport /\ r.status # 200

\* C5: a response with a non-success status to the primary weather call or to
\* the sun call, whatever its body, makes the client that received it return an
\* error, and getConsolidatedData return an error and no result.
C5_BadStatusIsFatal ==
    \A c \in SingleCall :
        /\ (wpc[c] \in {"exit", "done"} /\ BadStatus(wresp1[c])) => err1[c] # Nil
        /\ (spc[c] \in {"exit", "done"} /\ BadStatus(sresp[c])) => err2[c] # Nil
        /\ \A i \in 1..Len(ret[c]) :
              (BadStatus(wresp1[c]) \/ BadStatus(sresp[c]))
                  => ret[c][i].err # Nil /\ ret[c][i].resp = ZeroResponse

\* The penalties of a reading, summed.
PenaltySum(w) ==
    (IF w.Temperature > 33 THEN 3 ELSE IF w.Temperature < 18 THEN 2 ELSE 0)
    + (IF w.Precipitation > 1 THEN 4 ELSE 0)
    + (IF w.UVIndex > 8 THEN 2 ELSE 0)
    + (IF w.AQI > 100 THEN 3 ELSE 0)
    + (IF w.CloudCover > 80 THEN 1 ELSE 0)

Tier(score) ==
    CASE score >= 8 -> "Sangat baik untuk mendaki!"
      [] score \in 5..7 -> "Cukup baik, tetapi perhatikan cuaca."
      [] score \in 3..4 -> "Kurang disarankan, kondisi tidak ideal."
      [] score < 3 -> "Tidak disarankan untuk mendaki hari ini."

\* C6: the index of a reading is 10 minus the sum of the penalties that fire,
\* clamped to [0, 10] (so always within [0, 10]), and the recommendation is the
\* tier of that clamped score.
C6_IndexIsClampedPenaltySum ==
    indices.computed =>
        LET raw == 10 - PenaltySum(reading)
            clamped == IF raw < 0 THEN 0 ELSE IF raw > 10 THEN 10 ELSE raw
        IN  /\ indices.value.HikingIndex = clamped * 10
            /\ indices.value.HikingIndex \in 0..100
            /\ indices.value.HikingRecommendation = Tier(clamped)

\* All five penalties fire (10 - 3 - 4 - 2 - 3 - 1 = -3) and the index is 0.
C6_Witness ==
    /\ indices.computed
    /\ reading.Temperature > 33
    /\ reading.Precipitation > 1
    /\ reading.UVIndex > 8
    /\ reading.AQI > 100
    /\ reading.CloudCover > 80
    /\ indices.value.HikingIndex = 0

\* The 8 named bands over [0,1), bounds in hundredths: [lo, hi), except that
\* Sabit Akhir is [0.77, 0.97] and Bulan Baru is [0, 0.03) with (0.97, 1).
InBand(name, p) ==
    CASE name = "Bulan Baru" -> Below(p, 3) \/ Above(p, 97)
      [] name = "Sabit Awal" -> ~Below(p, 3) /\ Below(p, 25)
      [] name = "Kuartal Pertama" -> ~Below(p, 25) /\ Below(p, 27)
      [] name = "Cembung Awal" -> ~Below(p, 27) /\ Below(p, 50)
      [] name = "Bulan Purnama" -> ~Below(p, 50) /\ Below(p, 53)
      [] name = "Cembung Akhir" -> ~Below(p, 53) /\ Below(p, 75)
      [] name = "Kuartal Akhir" -> ~Below(p, 75) /\ Below(p, 77)
      [] name = "Sabit Akhir" -> ~Below(p, 77) /\ ~Above(p, 97)

BandNames ==
    {"Bulan Baru", "Sabit Awal", "Kuartal Pertama", "Cembung Awal",
     "Bulan Purnama", "Cembung Akhir", "Kuartal Akhir", "Sabit Akhir"}

\* C7: every phase in [0,1) lies in exactly one of the 8 bands, and that band
\* is the name calculateMoonPhase gives; phase 0 is Bulan Baru (new moon).
C7_PhaseBandsTotal ==
    (moon.computed /\ Phase(now) >= 0) =>
        LET p == Phase(now)
        IN  /\ p < TicksPerMonth
            /\ Cardinality({b \in BandNames : InBand(b, p)}) = 1
            /\ InBand(moon.value.PhaseName, p)
            /\ moon.value.PhaseName \in BandNames
            /\ p = 0 => moon.value.PhaseName = "Bulan Baru"

\* The moon of the reference new moon itself and of an instant one whole month
\* later: phase 0, Bulan Baru.
C7_Witness ==
    /\ moon.computed
    /\ now \in {0, TicksPerMonth}
    /\ Phase(now) = 0
    /\ moon.value.PhaseName = "Bulan Baru"

\* C8: at every instant, before the reference new moon too, the illumination
\* lies in [0, 1] and equals the illumination one synodic month later.
C8_IlluminationPeriodic ==
    moon.computed =>
        /\ moon.value.Illumination \in 0..100
        /\ moon.value.Illumination
              = calculateMoonPhase(now + TicksPerMonth).Illumination

RaceFree ==
    \A a, b \in Accesses :
        (a.frame = b.frame /\ a.var = b.var /\ (a.write \/ b.write))
            => (a.call = b.call /\ a.task = b.task)

OwnSlots ==
    \A a \in Accesses :
        /\ a.frame = a.call
        /\ a.task = "weather" => a.var \in {"weather", "err1"}
        /\ a.task = "sun" => a.var \in {"sun", "err2"}
        /\ a.task = "main" =>
              ~a.write /\ wg[a.call] = 0 /\ Len(order[a.call]) = 2

SlotWritesOwn ==
    \A c \in RaceCalls :
        /\ (weather'[c] # weather[c] \/ err1'[c] # err1[c])
              => wpc[c] = "assign" /\ wpc'[c] = "exit"
        /\ (sun'[c] # sun[c] \/ err2'[c] # err2[c])
              => spc[c] = "assign" /\ spc'[c] = "exit"

\* C9: in every interleaving of concurrent calls, no two tasks are at accesses
\* to the same variable of the same frame with one of them writing; the weather
\* goroutine writes only weather and err1, the sun goroutine only sun and err2,
\* each in its own call's frame; the calling task only reads, and only after
\* wg.Wait() has returned.
C9_NoSharedWrites == [](RaceFree /\ OwnSlots) /\ [][SlotWritesOwn]_vars

\* One call is reading weather and sun after its wait while the weather
\* goroutine of another call is storing its own result.
C9_Witness ==
    \E c, d \in RaceCalls :
        /\ c # d
        /\ pc[c] = "build"
        /\ wpc[d] = "assign"
        /\ spc[d] = "assign"

ProvidersAnswered(c) ==
    /\ wpc[c] \in {"assign", "exit", "done"}
    /\ spc[c] \in {"assign", "exit", "done"}

\* C10: under fair scheduling of the three tasks, once both provider calls have
\* completed getConsolidatedData eventually returns, with exactly one outcome;
\* and as long as a provider call has not completed it has not returned,
\* whatever the other call produced.
C10_ReturnsIffProvidersAnswer ==
    \A c \in SingleCall :
        /\ ProvidersAnswered(c) ~> (pc[c] = "returned" /\ Len(ret[c]) = 1)
        /\ [](~ProvidersAnswered(c) => (pc[c] # "returned" /\ ret[c] = <<>>))
        /\ [](Len(ret[c]) <= 1)

\* Both providers answered, the sun goroutine first, and the call has returned
\* its one outcome, a result.
C10_Witness ==
    \E c \in SingleCall :
        /\ pc[c] = "returned"
        /\ order[c] = <<"sun", "weather">>
        /\ Len(ret[c]) = 1
        /\ ret[c][1].err = Nil

=============================================================================
